---- MODULE Spec2Model ----
(***************************************************************************)
(* A model of mr-conflict-checker: the GitLab client's paginated listing,  *)
(* its rate limiter, operations, cancellation and Close, the repository    *)
(* scanner, the merge-request analyzer, the report counters, the report    *)
(* file naming, and run from the configuration to the report.  Each        *)
(* component has its own specification over its own group of variables;    *)
(* the other groups stay at their idle values.                             *)
(***************************************************************************)
EXTENDS Integers, Sequences, FiniteSets, TLC

VARIABLES
    \* gitlab.Client.ListRepositories (one paginated call)
    upstreamRepos, serverPerPage, page, allRepos, lrPc, lrErr, lrRequests,
    \* analyzer.filterAndSortConflictingMRs / filterAndSortRealConflictingMRs
    fMrs, fChanges, fOut, fPc,
    \* models.Report
    report,
    \* scanner.RepositoryScanner and analyzer.AnalyzeMRs; observe says whether
    \* the upstream's answers are kept (listedRepos, scAnswers, anLast);
    \* client is AnalyzeMRs' client argument, anRequests the repositories it
    \* called ListMergeRequests for
    observe, includeGroups, listedRepos, filteredRepos, processedRepos,
    scAnswers, mrRequests, scCount, scErr,
    client, repositories, analyzedRepos, anLast, anErr, anRequests, pc,
    \* analyzer.GetConflictingMRs over analyzedRepos: the repositories looked
    \* at so far, the mapping, what the upstream answered and for which
    \* repositories ListMergeRequests was called, the returned error
    gcIndex, gcConflictingMRs, gcAnswers, gcRequests, gcErr,
    \* gitlab.Client: the time since NewClient (ms), the rate limiter's channel
    \* (0: empty, else the buffered tick's time), the operation in progress,
    \* its position, page, requested pages and error, the last exchange and
    \* what makeRequest made of it, and every request issued; ctxDone: the
    \* caller's context is cancelled; closed: Close has stopped the ticker
    now, tickC, opName, opPc, opPage, opPages, opErr, lastResp, lastErr, reqLog,
    ctxDone, closed,
    \* reporter.GenerateReport: the files of the file system (path to the
    \* call that wrote it, 0 for a file that was there before), the wall
    \* clock in seconds, the calls made, what the last call returned
    files, fsClock, genCalls, genPath, genErr,
    \* run: the error it returned, where it was when its context was
    \* cancelled, the repositories one of whose fetches failed
    runErr, cancelPc, fetchFailed,
    \* one paginated call against any upstream: the operation, its position,
    \* the page number (modulo PageModulus), the full pages the upstream has
    \* left (Endless: every page is full), the last request's outcome
    pgOp, pgPc, pgPage, pgLeft, pgLast

listVars   == <<upstreamRepos, serverPerPage, page, allRepos, lrPc, lrErr, lrRequests>>
filterVars == <<fMrs, fChanges, fOut, fPc>>
reportVars == <<report>>
scanVars   == <<includeGroups, listedRepos, filteredRepos, processedRepos,
                scAnswers, mrRequests, scCount, scErr>>
anVars     == <<client, repositories, analyzedRepos, anLast, anErr, anRequests>>
pipeVars   == <<observe, scanVars, anVars, pc>>
gcVars     == <<gcIndex, gcConflictingMRs, gcAnswers, gcRequests, gcErr>>
clientVars == <<now, tickC, opName, opPc, opPage, opPages, opErr, lastResp, lastErr,
                reqLog, ctxDone, closed>>
fsVars     == <<files, fsClock, genCalls, genPath, genErr>>
runVars    == <<runErr, cancelPc, fetchFailed>>
pgVars     == <<pgOp, pgPc, pgPage, pgLeft, pgLast>>
vars       == <<listVars, filterVars, reportVars, pipeVars, gcVars, clientVars, fsVars,
                runVars, pgVars>>

\* The nil error.
Nil == "<nil>"

Min(a, b) == IF a < b THEN a ELSE b

----------------------------------------------------------------------------
(* internal/models                                                         *)

StatusAccessible == 0
StatusError == 1
StatusNoMRs == 2
StatusConflicts == 3
Statuses == {StatusAccessible, StatusError, StatusNoMRs, StatusConflicts}

\* A repository as the listing decodes it: Status and Error are not part of
\* the JSON, so they hold their zero values.
Repository(id, ns) ==
    [ID |-> id, Namespace |-> ns, Status |-> StatusAccessible, Error |-> Nil]

\* Most entries a report gets in the model.
MaxEntries == 3
\* Longest conflicting-MR list handed to AddRepository.
MaxReportMRs == 2

EmptyReport ==
    [TotalRepositories |-> 0, RepositoriesWithConflicts |-> 0,
     TotalConflictingMRs |-> 0, Repositories |-> <<>>]

\* AddRepository counting the conflicting MRs of every entry.
AddRepository_CountsEveryList(r, repo, conflictingMRs, status, errorMsg) ==
    LET repoReport == [Repository |-> repo, ConflictingMRs |-> conflictingMRs,
                       Status |-> status, ErrorMessage |-> errorMsg]
    IN  [Repositories |-> Append(r.Repositories, repoReport),
         TotalRepositories |-> r.TotalRepositories + 1,
         RepositoriesWithConflicts |->
             IF status = StatusConflicts THEN r.RepositoriesWithConflicts + 1
             ELSE r.RepositoriesWithConflicts,
         TotalConflictingMRs |-> r.TotalConflictingMRs + Len(conflictingMRs)]

\* Report.AddRepository: the report after the call.
AddRepository(r, repo, conflictingMRs, status, errorMsg) ==
    LET repoReport == [Repository |-> repo, ConflictingMRs |-> conflictingMRs,
                       Status |-> status, ErrorMessage |-> errorMsg]
        conflicts  == status = StatusConflicts
    IN  [Repositories |-> Append(r.Repositories, repoReport),
         TotalRepositories |-> r.TotalRepositories + 1,
         RepositoriesWithConflicts |->
             IF conflicts THEN r.RepositoriesWithConflicts + 1
             ELSE r.RepositoriesWithConflicts,
         TotalConflictingMRs |->
             IF conflicts THEN r.TotalConflictingMRs + Len(conflictingMRs)
             ELSE r.TotalConflictingMRs]

----------------------------------------------------------------------------
(* gitlab/client.go                                                        *)

\* perPage := 100
perPage == 100

\* Largest upstream repository list of the model.
MaxRepos == 201

\* Page sizes the upstream applies: it serves min(per_page, its own cap).
ServerPageSizes == {10, perPage}

\* What one HTTP exchange can come to: a transport failure, or a status
\* code with a body that does or does not decode.
\* net: httpClient.Do returned a response, else cause is its error; json:
\* the body decodes into what the caller expects.
Responses ==
    [net : {FALSE}, cause : {"timeout"}, code : {0}, body : {""}, json : {FALSE}]
        \cup [net : {TRUE}, cause : {""}, code : {200}, body : {""}, json : BOOLEAN]
        \cup [net : {TRUE}, cause : {""}, code : {304}, body : {""}, json : {FALSE}]
        \cup [net : {TRUE}, cause : {""}, code : {401, 429, 500},
              body : {"", "denied"}, json : {FALSE}]

\* makeRequest testing for a status of 400 or more first.
makeRequest_GenericFirst(resp) ==
    IF ~resp.net THEN "request failed: " \o resp.cause
    ELSE IF resp.code >= 400
      THEN "API error " \o ToString(resp.code) \o ": " \o resp.body
    ELSE IF resp.code = 401 THEN "authentication failed: invalid token"
    ELSE IF resp.code = 429 THEN "rate limit exceeded"
    ELSE Nil

\* makeRequest after the rate limiter's tick: the error it returns for the
\* outcome of httpClient.Do (Nil: the response is handed to the caller).
makeRequest(resp) ==
    IF ~resp.net THEN "request failed: " \o resp.cause
    ELSE IF resp.code = 401 THEN "authentication failed: invalid token"
    ELSE IF resp.code = 429 THEN "rate limit exceeded"
    ELSE IF resp.code >= 400
      THEN "API error " \o ToString(resp.code) \o ": " \o resp.body
    ELSE Nil

\* The upstream's answer to page=p&per_page=pp over the list all.
ServerPage(all, p, pp, cap) ==
    LET size  == Min(pp, cap)
        start == (p - 1) * size
        end   == Min(start + size, Len(all))
    IN  IF start < Len(all) THEN SubSeq(all, start + 1, end) ELSE <<>>

\* The exit test stopping on an empty page only.
LastPage_EmptyOnly(repos) == Len(repos) = 0

\* The loop's exit test, after the page was appended.
LastPage(repos) == Len(repos) < perPage

ListIdle ==
    /\ upstreamRepos = <<>>
    /\ serverPerPage = perPage
    /\ page = 1
    /\ allRepos = <<>>
    /\ lrPc = "idle"
    /\ lrErr = Nil
    /\ lrRequests = <<>>

ListInit ==
    /\ upstreamRepos \in {[i \in 1..n |-> i] : n \in 0..MaxRepos}
    /\ serverPerPage \in ServerPageSizes
    /\ page = 1
    /\ allRepos = <<>>
    /\ lrPc = "loop"
    /\ lrErr = Nil
    /\ lrRequests = <<>>

\* One iteration of ListRepositories' loop: request the page, decode it,
\* append it, and stop on a short page.
ListRepositoriesPage ==
    /\ lrPc = "loop"
    /\ lrRequests' = Append(lrRequests, page)
    /\ \E resp \in Responses :
        LET err   == makeRequest(resp)
            repos == ServerPage(upstreamRepos, page, perPage, serverPerPage)
        IN  \/ /\ err # Nil
               /\ lrErr' = err
               /\ allRepos' = <<>>
               /\ lrPc' = "failed"
               /\ page' = page
            \/ /\ err = Nil
               /\ ~resp.json
               /\ lrErr' = "failed to decode repositories response"
               /\ allRepos' = <<>>
               /\ lrPc' = "failed"
               /\ page' = page
            \/ /\ err = Nil
               /\ resp.json
               /\ allRepos' = allRepos \o repos
               /\ lrErr' = Nil
               /\ IF LastPage(repos)
                    THEN lrPc' = "returned" /\ page' = page
                    ELSE lrPc' = "loop" /\ page' = page + 1
    /\ UNCHANGED <<upstreamRepos, serverPerPage>>

----------------------------------------------------------------------------
(* gitlab.Client: the rate limiter and the operations                      *)

\* time.NewTicker(100 * time.Millisecond)
TickerPeriod == 100

\* The clock advances by Quantum, up to MaxClock.
Quantum == 50
MaxClock == 450
\* Most requests the client issues in the model.
MaxRequests == 3

Operations ==
    {"TestConnection", "ListRepositories", "ListMergeRequests", "GetMergeRequest",
     "GetMergeRequestChanges"}
Paginated == {"ListRepositories", "ListMergeRequests"}

NoResponse == [net |-> FALSE, cause |-> "", code |-> 0, body |-> "", json |-> FALSE]

\* The state after NewClient: the ticker has not fired yet.
ClientIdle ==
    /\ now = 0
    /\ tickC = 0
    /\ opName = "none"
    /\ opPc = "idle"
    /\ opPage = 1
    /\ opPages = <<>>
    /\ opErr = Nil
    /\ lastResp = NoResponse
    /\ lastErr = Nil
    /\ reqLog = <<>>
    /\ ctxDone = FALSE
    /\ closed = FALSE

\* The error an operation returns around makeRequest's error.
WrapError(op, p, err) ==
    CASE op = "TestConnection" -> "connection test failed: " \o err
      [] op = "ListRepositories" ->
            "failed to list repositories (page " \o ToString(p) \o "): " \o err
      [] op = "ListMergeRequests" ->
            "failed to list merge requests for project 1 (page " \o ToString(p)
                \o "): " \o err
      [] op = "GetMergeRequest" ->
            "failed to get merge request 1 for project 1: " \o err
      [] op = "GetMergeRequestChanges" ->
            "failed to get merge request changes 1 for project 1: " \o err

\* The error an operation returns when the body does not decode.
DecodeError(op) ==
    CASE op = "ListRepositories" -> "failed to decode repositories response"
      [] op = "ListMergeRequests" -> "failed to decode merge requests response"
      [] op = "GetMergeRequest" -> "failed to decode merge request response"
      [] op = "GetMergeRequestChanges" ->
            "failed to decode merge request changes response"

\* The pages the upstream can answer with: a short one and a full one.
Pages == {<<>>, [i \in 1..perPage |-> i]}

\* ctx.Err() of a cancelled context.
Canceled == "context canceled"

\* httpClient.Do with a cancelled context: it fails before anything is sent.
CanceledResponse ==
    [net |-> FALSE, cause |-> Canceled, code |-> 0, body |-> "", json |-> FALSE]

\* The ticker firing after Stop as before.
TimePasses_TicksAfterStop ==
    /\ now + Quantum <= MaxClock
    /\ now' = now + Quantum
    /\ tickC' = IF tickC = 0 /\ (now' \div TickerPeriod) > (now \div TickerPeriod)
                 THEN ((now \div TickerPeriod) + 1) * TickerPeriod
                 ELSE tickC
    /\ UNCHANGED <<opName, opPc, opPage, opPages, opErr, lastResp, lastErr, reqLog,
                   ctxDone, closed>>

\* Time passes; until it is stopped the ticker fires every TickerPeriod, and
\* its channel holds one tick: a tick that finds the channel full is dropped.
TimePasses ==
    /\ now + Quantum <= MaxClock
    /\ now' = now + Quantum
    /\ tickC' = IF /\ ~closed
                   /\ tickC = 0
                   /\ (now' \div TickerPeriod) > (now \div TickerPeriod)
                 THEN ((now \div TickerPeriod) + 1) * TickerPeriod
                 ELSE tickC
    /\ UNCHANGED <<opName, opPc, opPage, opPages, opErr, lastResp, lastErr, reqLog,
                   ctxDone, closed>>

\* The caller's context is cancelled (main's signal handler calls cancel).
CancelContext ==
    /\ ~ctxDone
    /\ ctxDone' = TRUE
    /\ UNCHANGED <<now, tickC, opName, opPc, opPage, opPages, opErr, lastResp, lastErr,
                   reqLog, closed>>

\* Close, between two operations: the ticker is stopped.  Whether a tick
\* already in the channel can still be received depends on the Go release,
\* so it stays or goes.  A second Close changes nothing.
Close ==
    /\ opPc \in {"idle", "ok", "failed"}
    /\ closed' = TRUE
    /\ IF closed THEN tickC' = tickC ELSE tickC' \in {tickC, 0}
    /\ UNCHANGED <<now, opName, opPc, opPage, opPages, opErr, lastResp, lastErr, reqLog,
                   ctxDone>>

\* The caller starts an operation: it reaches makeRequest's select.
StartOperation ==
    /\ opPc \in {"idle", "ok", "failed"}
    /\ Len(reqLog) < MaxRequests
    /\ \E op \in Operations : opName' = op
    /\ opPc' = "wait"
    /\ opPage' = 1
    /\ opPages' = <<>>
    /\ opErr' = Nil
    /\ UNCHANGED <<now, tickC, lastResp, lastErr, reqLog, ctxDone, closed>>

\* What the operation does with makeRequest's result: the primed operation
\* variables.
AfterRequest(resp, err, pageItems) ==
    IF err # Nil
      THEN /\ opErr' = WrapError(opName, opPage, err)
           /\ opPc' = "failed"
           /\ opPage' = opPage
    ELSE IF opName = "TestConnection"
      THEN /\ opErr' = Nil
           /\ opPc' = "ok"
           /\ opPage' = opPage
    ELSE IF ~resp.json
      THEN /\ opErr' = DecodeError(opName)
           /\ opPc' = "failed"
           /\ opPage' = opPage
    ELSE IF opName \in Paginated /\ ~LastPage(pageItems)
      THEN /\ opErr' = Nil
           /\ opPc' = "wait"
           /\ opPage' = opPage + 1
    ELSE /\ opErr' = Nil
         /\ opPc' = "ok"
         /\ opPage' = opPage

\* makeRequest past its select with the request sent: the log, the
\* upstream's answer and what the operation does with it.
SendRequest ==
    /\ Len(reqLog) < MaxRequests
    /\ reqLog' = Append(reqLog, [at |-> now, tick |-> tickC])
    /\ opPages' = Append(opPages, opPage)
    /\ \E resp \in Responses, pageItems \in Pages :
        /\ lastResp' = resp
        /\ lastErr' = makeRequest(resp)
        /\ AfterRequest(resp, makeRequest(resp), pageItems)

\* makeRequest past its select with a cancelled context: httpClient.Do
\* returns the context's error and nothing is sent.
RequestNotSent ==
    /\ reqLog' = reqLog
    /\ opPages' = opPages
    /\ lastResp' = CanceledResponse
    /\ lastErr' = makeRequest(CanceledResponse)
    /\ AfterRequest(CanceledResponse, makeRequest(CanceledResponse), <<>>)

\* The request sent without waiting for a tick.
ClientRequest_NoWait ==
    /\ opPc = "wait"
    /\ tickC' = 0
    /\ IF ctxDone THEN RequestNotSent ELSE SendRequest
    /\ UNCHANGED <<now, opName, ctxDone, closed>>

\* A failed request sent again.
ClientRequest_Retry ==
    /\ opPc = "wait"
    /\ tickC # 0
    /\ tickC' = 0
    /\ IF ctxDone
         THEN RequestNotSent
         ELSE /\ Len(reqLog) < MaxRequests
              /\ reqLog' = Append(reqLog, [at |-> now, tick |-> tickC])
              /\ opPages' = Append(opPages, opPage)
              /\ \E resp \in Responses, pageItems \in Pages :
                  /\ lastResp' = resp
                  /\ lastErr' = makeRequest(resp)
                  /\ IF makeRequest(resp) # Nil
                       THEN opErr' = Nil /\ opPc' = "wait" /\ opPage' = opPage
                       ELSE AfterRequest(resp, makeRequest(resp), pageItems)
    /\ UNCHANGED <<now, opName, ctxDone, closed>>

\* The request sent whatever the context.
ClientRequest_IgnoresContext ==
    /\ opPc = "wait"
    /\ tickC # 0
    /\ tickC' = 0
    /\ SendRequest
    /\ UNCHANGED <<now, opName, ctxDone, closed>>

\* One request of the operation in progress, by the tick case of
\* makeRequest's select (which may also be taken when the context is
\* cancelled, if a tick is there): makeRequest takes the tick off the
\* channel, sends the request and maps the outcome; the operation returns,
\* or goes on to its next page.
ClientRequest ==
    /\ opPc = "wait"
    /\ tickC # 0
    /\ tickC' = 0
    /\ IF ctxDone THEN RequestNotSent ELSE SendRequest
    /\ UNCHANGED <<now, opName, ctxDone, closed>>

\* The ctx.Done() case of makeRequest's select: makeRequest returns
\* ctx.Err() and the operation returns it wrapped.
ClientRequestCancelled ==
    /\ opPc = "wait"
    /\ ctxDone
    /\ opErr' = WrapError(opName, opPage, Canceled)
    /\ opPc' = "failed"
    /\ UNCHANGED <<now, tickC, opName, opPage, opPages, lastResp, lastErr, reqLog,
                   ctxDone, closed>>

----------------------------------------------------------------------------
(* analyzer: the filter and the sort                                       *)

\* Longest merge-request list handed to the filter.
MaxLen == 3
\* Creation timestamps are 1..MaxTime.
MaxTime == 2

MRIDs == {1, 2}
\* Branch pairs and conflict flags: the qualifying one, and one that fails
\* each conjunct of the test.
MRKinds ==
    { <<"release", "master", TRUE>>, <<"release", "master", FALSE>>,
      <<"feature", "master", TRUE>>, <<"release", "develop", TRUE>> }

MR(id, kind, t) ==
    [ID |-> id, SourceBranch |-> kind[1], TargetBranch |-> kind[2],
     HasConflicts |-> kind[3], CreatedAt |-> t]

MergeRequests == {MR(id, k, t) : id \in MRIDs, k \in MRKinds, t \in 1..MaxTime}

SeqsUpTo(S, n) == UNION {[1..k -> S] : k \in 0..n}

\* The test without the conflict flag.
IsConflicting_IgnoresFlag(mr) ==
    /\ mr.SourceBranch = "release"
    /\ mr.TargetBranch = "master"

\* mr.SourceBranch == "release" && mr.TargetBranch == "master" && mr.HasConflicts
IsConflicting(mr) ==
    /\ mr.SourceBranch = "release"
    /\ mr.TargetBranch = "master"
    /\ mr.HasConflicts

\* The comparator with Before for After.
Less_Before(a, b) == a.CreatedAt < b.CreatedAt

\* The comparator given to sort.Slice: CreatedAt.After.
Less(a, b) == a.CreatedAt > b.CreatedAt

\* sort.Slice(s, less): some permutation of s in which no element is less
\* than its predecessor.  The sort is not stable, so every such permutation
\* is a possible result.
SortSlice(s) ==
    { p \in { [i \in 1..Len(s) |-> s[f[i]]] : f \in Permutations(1..Len(s)) } :
        \A i \in 1..(Len(s) - 1) : ~Less(p[i + 1], p[i]) }

\* The results filterAndSortConflictingMRs can return for mrs.
filterAndSortConflictingMRs(mrs) == SortSlice(SelectSeq(mrs, IsConflicting))

\* client.GetMergeRequestChanges answers with an error or a count.
NotAsked == [err |-> FALSE, count |-> -1]
ChangeAnswers == {[err |-> TRUE, count |-> 0], [err |-> FALSE, count |-> 0],
                  [err |-> FALSE, count |-> 1]}

\* hasActualChanges dropping the merge request when the lookup fails.
hasActualChanges_FailureDrops(ans) == IF ans.err THEN FALSE ELSE ans.count > 0

\* hasActualChanges: a failed lookup counts as a real conflict.
hasActualChanges(ans) == IF ans.err THEN TRUE ELSE ans.count > 0

\* The lookups a call can see: one answer per qualifying merge request,
\* none for the others.
ChangeLookups(mrs) ==
    { ch \in [1..Len(mrs) -> ChangeAnswers \cup {NotAsked}] :
        \A i \in 1..Len(mrs) : (ch[i] = NotAsked) <=> ~IsConflicting(mrs[i]) }

\* The indices of mrs that filterAndSortRealConflictingMRs keeps.
RealKept(mrs, ch) ==
    { i \in 1..Len(mrs) : IsConflicting(mrs[i]) /\ hasActualChanges(ch[i]) }

RECURSIVE KeepIndices(_, _, _)
KeepIndices(mrs, keep, i) ==
    IF i > Len(mrs) THEN <<>>
    ELSE IF i \in keep THEN <<mrs[i]>> \o KeepIndices(mrs, keep, i + 1)
    ELSE KeepIndices(mrs, keep, i + 1)

\* The results filterAndSortRealConflictingMRs can return for mrs.
filterAndSortRealConflictingMRs(mrs, ch) ==
    SortSlice(KeepIndices(mrs, RealKept(mrs, ch), 1))

FilterIdle ==
    /\ fMrs = <<>>
    /\ fChanges = <<>>
    /\ fOut = <<>>
    /\ fPc = "idle"

FilterInit ==
    /\ fMrs \in SeqsUpTo(MergeRequests, MaxLen)
    /\ fChanges = <<>>
    /\ fOut = <<>>
    /\ fPc = "input"

CallFilterAndSortConflictingMRs ==
    /\ fPc = "input"
    /\ \E out \in filterAndSortConflictingMRs(fMrs) : fOut' = out
    /\ fPc' = "basic"
    /\ UNCHANGED <<fMrs, fChanges>>

CallFilterAndSortRealConflictingMRs ==
    /\ fPc = "input"
    /\ \E ch \in ChangeLookups(fMrs) :
        /\ fChanges' = ch
        /\ \E out \in filterAndSortRealConflictingMRs(fMrs, ch) : fOut' = out
    /\ fPc' = "real"
    /\ UNCHANGED fMrs

----------------------------------------------------------------------------
(* models.Report: the counters                                             *)

ReportMRLists == SeqsUpTo({MR(1, <<"release", "master", TRUE>>, 1)}, MaxReportMRs)
ErrorMsgs == {"", "fetch failed"}

ReportInit == report = EmptyReport

CallAddRepository ==
    /\ Len(report.Repositories) < MaxEntries
    /\ \E mrs \in ReportMRLists, status \in Statuses, errorMsg \in ErrorMsgs :
        report' = AddRepository(report,
                                Repository(Len(report.Repositories) + 1, 10),
                                mrs, status, errorMsg)

----------------------------------------------------------------------------
(* scanner.RepositoryScanner                                               *)

\* Most repositories the listing returns to the scanner.
MaxScanRepos == 3
\* Longest merge-request list a repository answers the scanner with.
MaxScanMRs == 2

Namespaces == {10, 20}
\* The configured include_groups.
Whitelists == {<<>>, <<10>>}

RepoLists ==
    UNION { { [i \in 1..n |-> Repository(i, ns[i])] : ns \in [1..n -> Namespaces] } :
            n \in 0..MaxScanRepos }

\* What client.ListRepositories returns to the scanner.
Listings ==
    {[err |-> "failed to list repositories", repos |-> <<>>]}
        \cup {[err |-> Nil, repos |-> l] : l \in RepoLists}

ScanMRs == {MR(1, k, 1) : k \in {<<"release", "master", TRUE>>, <<"release", "master", FALSE>>}}

\* What client.ListMergeRequests returns to the scanner.
ScanAnswers ==
    {[err |-> "failed to list merge requests", mrs |-> <<>>]}
        \cup {[err |-> Nil, mrs |-> m] : m \in SeqsUpTo(ScanMRs, MaxScanMRs)}

\* filterRepositories read as a blacklist.
filterRepositories_Blacklist(repos, groups) ==
    IF Len(groups) = 0 THEN repos
    ELSE LET includeMap == {groups[i] : i \in DOMAIN groups}
         IN  SelectSeq(repos, LAMBDA repo : repo.Namespace \notin includeMap)

\* filterRepositories: the repositories of the included groups.
filterRepositories(repos, groups) ==
    IF Len(groups) = 0 THEN repos
    ELSE LET includeMap == {groups[i] : i \in DOMAIN groups}
         IN  SelectSeq(repos, LAMBDA repo : repo.Namespace \in includeMap)

\* processRepository with the analyzer's three-way status.
processRepository_ThreeWay(repo, ans) ==
    IF ans.err # Nil
      THEN [repo EXCEPT !.Status = StatusError, !.Error = ans.err]
    ELSE IF Len(ans.mrs) = 0
      THEN [repo EXCEPT !.Status = StatusNoMRs, !.Error = Nil]
    ELSE IF \E i \in 1..Len(ans.mrs) : ans.mrs[i].HasConflicts
      THEN [repo EXCEPT !.Status = StatusConflicts, !.Error = Nil]
    ELSE [repo EXCEPT !.Status = StatusAccessible, !.Error = Nil]

\* processRepository that sets the Error status and drops the error.
processRepository_ErrorNotStored(repo, ans) ==
    IF ans.err # Nil
      THEN [repo EXCEPT !.Status = StatusError, !.Error = Nil]
    ELSE IF Len(ans.mrs) = 0
      THEN [repo EXCEPT !.Status = StatusNoMRs, !.Error = Nil]
    ELSE IF \E i \in 1..Len(ans.mrs) : ans.mrs[i].HasConflicts
      THEN [repo EXCEPT !.Status = StatusConflicts, !.Error = Nil]
    ELSE [repo EXCEPT !.Status = StatusNoMRs, !.Error = Nil]

\* processRepository: the repository with its status, given what
\* ListMergeRequests(repo.ID, "release", "master") returned.
processRepository(repo, ans) ==
    IF ans.err # Nil
      THEN [repo EXCEPT !.Status = StatusError, !.Error = ans.err]
    ELSE IF Len(ans.mrs) = 0
      THEN [repo EXCEPT !.Status = StatusNoMRs, !.Error = Nil]
    ELSE IF \E i \in 1..Len(ans.mrs) : ans.mrs[i].HasConflicts
      THEN [repo EXCEPT !.Status = StatusConflicts, !.Error = Nil]
    ELSE [repo EXCEPT !.Status = StatusNoMRs, !.Error = Nil]

ScanIdle ==
    /\ includeGroups = <<>>
    /\ listedRepos = <<>>
    /\ filteredRepos = <<>>
    /\ processedRepos = <<>>
    /\ scAnswers = <<>>
    /\ mrRequests = <<>>
    /\ scCount = 0
    /\ scErr = Nil

ScanInit ==
    /\ includeGroups \in Whitelists
    /\ listedRepos = <<>>
    /\ filteredRepos = <<>>
    /\ processedRepos = <<>>
    /\ scAnswers = <<>>
    /\ mrRequests = <<>>
    /\ scCount = 0
    /\ scErr = Nil

\* ScanRepositories up to its loop: list, give up on a failed listing,
\* filter.
ScanListRepositories ==
    /\ pc = "start"
    /\ \E listing \in Listings :
        IF listing.err # Nil
          THEN /\ scErr' = "failed to retrieve repositories"
               /\ pc' = "scan_failed"
               /\ UNCHANGED <<listedRepos, filteredRepos>>
          ELSE LET filtered == filterRepositories(listing.repos, includeGroups)
               IN  /\ listedRepos' = IF observe THEN listing.repos ELSE listedRepos
                   /\ filteredRepos' = filtered
                   /\ scErr' = Nil
                   /\ pc' = IF Len(filtered) = 0 THEN "scanned" ELSE "process"
    /\ UNCHANGED <<observe, includeGroups, processedRepos, scAnswers, mrRequests,
                   scCount, anVars>>

\* The loop giving up the whole scan on a failed fetch.
ScanProcessRepository_Abort ==
    /\ pc = "process"
    /\ LET i    == Len(processedRepos) + 1
           repo == filteredRepos[i]
       IN  /\ mrRequests' = Append(mrRequests, repo.ID)
           /\ \E ans \in ScanAnswers :
               /\ scAnswers' = IF observe THEN Append(scAnswers, ans) ELSE scAnswers
               /\ IF ans.err # Nil
                    THEN /\ processedRepos' = <<>>
                         /\ scErr' = ans.err
                         /\ pc' = "scan_failed"
                    ELSE /\ processedRepos' =
                              Append(processedRepos, processRepository(repo, ans))
                         /\ scErr' = scErr
                         /\ pc' = IF i = Len(filteredRepos) THEN "scanned" ELSE "process"
    /\ UNCHANGED <<observe, includeGroups, listedRepos, filteredRepos, scCount, anVars>>

\* One iteration of ScanRepositories' loop: processRepository on the next
\* filtered repository; after the last one the scan returns.
ScanProcessRepository ==
    /\ pc = "process"
    /\ LET i    == Len(processedRepos) + 1
           repo == filteredRepos[i]
       IN  /\ mrRequests' = Append(mrRequests, repo.ID)
           /\ \E ans \in ScanAnswers :
               /\ processedRepos' = Append(processedRepos, processRepository(repo, ans))
               /\ scAnswers' = IF observe THEN Append(scAnswers, ans) ELSE scAnswers
           /\ pc' = IF i = Len(filteredRepos) THEN "scanned" ELSE "process"
    /\ UNCHANGED <<observe, includeGroups, listedRepos, filteredRepos, scCount,
                   scErr, anVars>>

\* GetRepositoryCount: list, filter, count.
GetRepositoryCount ==
    /\ pc = "start"
    /\ \E listing \in Listings :
        IF listing.err # Nil
          THEN /\ scErr' = "failed to count repositories"
               /\ pc' = "count_failed"
               /\ UNCHANGED <<listedRepos, scCount>>
          ELSE /\ listedRepos' = IF observe THEN listing.repos ELSE listedRepos
               /\ scCount' = Len(filterRepositories(listing.repos, includeGroups))
               /\ scErr' = Nil
               /\ pc' = "counted"
    /\ UNCHANGED <<observe, includeGroups, filteredRepos, processedRepos, scAnswers,
                   mrRequests, anVars>>

----------------------------------------------------------------------------
(* analyzer.AnalyzeMRs                                                     *)

\* Most repositories handed to AnalyzeMRs on its own.
MaxAnRepos == 2
\* Longest merge-request list a repository answers the analyzer with.
MaxAnMRs == 2

AnMRs ==
    {MR(1, k, 1) : k \in { <<"release", "master", TRUE>>, <<"release", "master", FALSE>>,
                           <<"feature", "master", TRUE>> }}

\* What the upstream answers one analyzeRepository call: the result of
\* ListMergeRequests and, for the qualifying merge requests, of the
\* change-count lookups.
NoAnswer == [err |-> Nil, mrs |-> <<>>, changes |-> <<>>, asked |-> FALSE]
AnAnswers ==
    {[err |-> "failed to list merge requests", mrs |-> <<>>, changes |-> <<>>, asked |-> TRUE]}
        \cup UNION { {[err |-> Nil, mrs |-> m, changes |-> ch, asked |-> TRUE] :
                        ch \in ChangeLookups(m)} : m \in SeqsUpTo(AnMRs, MaxAnMRs) }

\* The arguments AnalyzeMRs is called with on its own.
InputRepos(n) ==
    { [i \in 1..n |-> [ID |-> i, Namespace |-> 10, Status |-> st[i],
                       Error |-> IF st[i] = StatusError THEN "scan failed" ELSE Nil]] :
        st \in [1..n -> Statuses] }

\* The scanner's two-way status in the analyzer.
AnalyzedStatus_TwoWay(conflictingMRs, mrs) ==
    IF Len(conflictingMRs) > 0 THEN StatusConflicts ELSE StatusNoMRs

\* The status analyzeRepository gives for the survivors and the fetched list.
AnalyzedStatus(conflictingMRs, mrs) ==
    IF Len(conflictingMRs) > 0 THEN StatusConflicts
    ELSE IF Len(mrs) > 0 THEN StatusAccessible
    ELSE StatusNoMRs

\* analyzeRepository keeping the scanner's status when nothing survives.
analyzeRepository_KeepsScanStatus(repo, ans) ==
    IF ans.err # Nil
      THEN {[repo |-> repo, err |-> "failed to fetch merge requests"]}
      ELSE { [repo |-> IF Len(conflictingMRs) > 0
                         THEN [repo EXCEPT !.Status = StatusConflicts]
                         ELSE repo,
              err  |-> Nil] :
             conflictingMRs \in filterAndSortRealConflictingMRs(ans.mrs, ans.changes) }

\* analyzeRepository: the (repository, error) pairs it can return.
analyzeRepository(repo, ans) ==
    IF ans.err # Nil
      THEN {[repo |-> repo, err |-> "failed to fetch merge requests"]}
      ELSE { [repo |-> [repo EXCEPT !.Status = AnalyzedStatus(conflictingMRs, ans.mrs)],
              err  |-> Nil] :
             conflictingMRs \in filterAndSortRealConflictingMRs(ans.mrs, ans.changes) }

\* The client argument: nil, or the client NewClient made.
NilClient == "nil"
TheClient == "client"

AnIdle ==
    /\ client = TheClient
    /\ repositories = <<>>
    /\ analyzedRepos = <<>>
    /\ anLast = NoAnswer
    /\ anErr = Nil
    /\ anRequests = <<>>

\* AnalyzeMRs entering its loop whatever the client is.
AnalyzeMRsEntry_NoNilCheck(repos) ==
    /\ repositories' = repos
    /\ analyzedRepos' = <<>>
    /\ anErr' = Nil
    /\ pc' = IF Len(repos) = 0 THEN "analyzed" ELSE "analyze"

\* AnalyzeMRs(ctx, client, repos) up to its loop: the nil check.
AnalyzeMRsEntry(repos) ==
    /\ repositories' = repos
    /\ analyzedRepos' = <<>>
    /\ IF client = NilClient
         THEN /\ anErr' = "gitlab client cannot be nil"
              /\ pc' = "analyze_failed"
         ELSE /\ anErr' = Nil
              /\ pc' = IF Len(repos) = 0 THEN "analyzed" ELSE "analyze"

\* run hands the scan's result to AnalyzeMRs.
AnalyzeStart ==
    /\ pc = "scanned"
    /\ AnalyzeMRsEntry(processedRepos)
    /\ UNCHANGED <<observe, scanVars, client, anLast, anRequests>>

\* AnalyzeMRs called on its own.
CallAnalyzeMRs ==
    /\ pc = "call"
    /\ AnalyzeMRsEntry(repositories)
    /\ UNCHANGED <<observe, scanVars, client, anLast, anRequests>>

\* The loop querying the repositories in error like the others.
AnalyzeRepositoryStep_Requery ==
    /\ pc = "analyze"
    /\ LET i    == Len(analyzedRepos) + 1
           repo == repositories[i]
       IN  /\ \E ans \in AnAnswers : \E res \in analyzeRepository(repo, ans) :
                /\ analyzedRepos' =
                     Append(analyzedRepos,
                            IF res.err # Nil
                              THEN [repo EXCEPT !.Status = StatusError,
                                                !.Error = res.err]
                              ELSE res.repo)
                /\ anLast' = IF observe THEN ans ELSE NoAnswer
                /\ anRequests' = Append(anRequests, repo.ID)
           /\ pc' = IF i = Len(repositories) THEN "analyzed" ELSE "analyze"
    /\ UNCHANGED <<observe, scanVars, client, repositories, anErr>>

\* The loop giving up the whole analysis on a failed fetch.
AnalyzeRepositoryStep_Abort ==
    /\ pc = "analyze"
    /\ LET i    == Len(analyzedRepos) + 1
           repo == repositories[i]
       IN  IF repo.Status = StatusError
             THEN /\ analyzedRepos' = Append(analyzedRepos, repo)
                  /\ anLast' = NoAnswer
                  /\ anRequests' = anRequests
                  /\ anErr' = anErr
                  /\ pc' = IF i = Len(repositories) THEN "analyzed" ELSE "analyze"
             ELSE \E ans \in AnAnswers : \E res \in analyzeRepository(repo, ans) :
                  /\ anLast' = IF observe THEN ans ELSE NoAnswer
                  /\ anRequests' = Append(anRequests, repo.ID)
                  /\ IF res.err # Nil
                       THEN /\ analyzedRepos' = <<>>
                            /\ anErr' = res.err
                            /\ pc' = "analyze_failed"
                       ELSE /\ analyzedRepos' = Append(analyzedRepos, res.repo)
                            /\ anErr' = anErr
                            /\ pc' = IF i = Len(repositories) THEN "analyzed"
                                     ELSE "analyze"
    /\ UNCHANGED <<observe, scanVars, client, repositories>>

\* One iteration of AnalyzeMRs' loop.
AnalyzeRepositoryStep ==
    /\ pc = "analyze"
    /\ LET i    == Len(analyzedRepos) + 1
           repo == repositories[i]
       IN  /\ IF repo.Status = StatusError
                THEN /\ analyzedRepos' = Append(analyzedRepos, repo)
                     /\ anLast' = NoAnswer
                     /\ anRequests' = anRequests
                ELSE \E ans \in AnAnswers : \E res \in analyzeRepository(repo, ans) :
                     /\ analyzedRepos' =
                          Append(analyzedRepos,
                                 IF res.err # Nil
                                   THEN [repo EXCEPT !.Status = StatusError,
                                                     !.Error = res.err]
                                   ELSE res.repo)
                     /\ anLast' = IF observe THEN ans ELSE NoAnswer
                     /\ anRequests' = Append(anRequests, repo.ID)
           /\ pc' = IF i = Len(repositories) THEN "analyzed" ELSE "analyze"
    /\ UNCHANGED <<observe, scanVars, client, repositories, anErr>>

----------------------------------------------------------------------------
(* analyzer.GetConflictingMRs                                              *)

\* Most repositories handed to GetConflictingMRs on its own.
MaxGcRepos == 2
\* Longest merge-request list a repository answers GetConflictingMRs with.
MaxGcMRs == 2

GcMRs == {MR(1, k, 1) : k \in {<<"release", "master", TRUE>>, <<"release", "master", FALSE>>}}

\* What the upstream answers one repository's re-fetch: the result of
\* ListMergeRequests and, for the qualifying merge requests, of the
\* change-count lookups.
GcAnswers ==
    {[err |-> "failed to list merge requests", mrs |-> <<>>, changes |-> <<>>, asked |-> TRUE]}
        \cup UNION { {[err |-> Nil, mrs |-> m, changes |-> ch, asked |-> TRUE] :
                        ch \in ChangeLookups(m)} : m \in SeqsUpTo(GcMRs, MaxGcMRs) }

\* make(map[int][]models.MergeRequest)
EmptyMap == <<>>

GcIdle ==
    /\ gcIndex = 0
    /\ gcConflictingMRs = EmptyMap
    /\ gcAnswers = <<>>
    /\ gcRequests = <<>>
    /\ gcErr = Nil

\* GetConflictingMRs(ctx, client, analyzedRepos) up to its loop; an empty
\* list returns the empty mapping at once.
GetConflictingMRsEntry ==
    /\ gcConflictingMRs' = EmptyMap
    /\ gcIndex' = 0
    /\ gcErr' = Nil
    /\ pc' = IF Len(analyzedRepos) = 0 THEN "collected" ELSE "conflicts"
    /\ UNCHANGED <<observe, scanVars, anVars, gcAnswers, gcRequests>>

\* GetConflictingMRs called on its own.
CallGetConflictingMRs ==
    /\ pc = "gc_call"
    /\ GetConflictingMRsEntry

\* The loop re-fetching every repository, whatever its status.
GetConflictingMRsStep_AnyStatus ==
    /\ pc = "conflicts"
    /\ LET i    == gcIndex + 1
           repo == analyzedRepos[i]
       IN  /\ gcIndex' = i
           /\ \E ans \in GcAnswers :
                /\ gcRequests' = Append(gcRequests, repo.ID)
                /\ gcAnswers' = IF observe THEN Append(gcAnswers, ans) ELSE gcAnswers
                /\ IF ans.err # Nil
                     THEN gcConflictingMRs' = gcConflictingMRs
                     ELSE \E conflicts \in
                               filterAndSortRealConflictingMRs(ans.mrs, ans.changes) :
                          gcConflictingMRs' =
                              IF Len(conflicts) > 0
                                THEN (repo.ID :> conflicts) @@ gcConflictingMRs
                                ELSE gcConflictingMRs
           /\ pc' = IF i = Len(analyzedRepos) THEN "collected" ELSE "conflicts"
    /\ UNCHANGED <<observe, scanVars, anVars, gcErr>>

\* One iteration of GetConflictingMRs' loop, ans being what the upstream
\* answers if the repository is fetched again.
GetConflictingMRsRepo(ans) ==
    /\ pc = "conflicts"
    /\ LET i    == gcIndex + 1
           repo == analyzedRepos[i]
       IN  /\ gcIndex' = i
           /\ IF repo.Status = StatusConflicts
                THEN /\ gcRequests' = Append(gcRequests, repo.ID)
                     /\ gcAnswers' = IF observe THEN Append(gcAnswers, ans) ELSE gcAnswers
                     /\ IF ans.err # Nil
                          THEN gcConflictingMRs' = gcConflictingMRs
                          ELSE \E conflicts \in
                                    filterAndSortRealConflictingMRs(ans.mrs, ans.changes) :
                               gcConflictingMRs' =
                                   IF Len(conflicts) > 0
                                     THEN (repo.ID :> conflicts) @@ gcConflictingMRs
                                     ELSE gcConflictingMRs
                ELSE /\ gcRequests' = gcRequests
                     /\ gcAnswers' = IF observe THEN Append(gcAnswers, NoAnswer)
                                     ELSE gcAnswers
                     /\ gcConflictingMRs' = gcConflictingMRs
           /\ pc' = IF i = Len(analyzedRepos) THEN "collected" ELSE "conflicts"
    /\ UNCHANGED <<observe, scanVars, anVars, gcErr>>

\* One iteration of GetConflictingMRs' loop; after the last repository the
\* mapping is returned with a nil error.
GetConflictingMRsStep == \E ans \in GcAnswers : GetConflictingMRsRepo(ans)

----------------------------------------------------------------------------
(* reporter.GenerateReport                                                *)

\* Seconds the wall clock can reach.
MaxSeconds == 1
\* Most GenerateReport calls.
MaxGenCalls == 3
\* Largest suffix among the files that are there before the first call.
MaxOldSuffix == 2

outputDir == "reports"

\* generateTimestamp: time.Now().UTC().Format("2006-01-02T15-04-05") at
\* second sec of the hour.
generateTimestamp(sec) ==
    "2024-01-01T00-00-" \o (IF sec < 10 THEN "0" ELSE "") \o ToString(sec)

\* filepath.Join of a directory and a name.
Join(dir, name) == dir \o "/" \o name

\* The last index i <= n of path holding c before any separator, 0 if none.
RECURSIVE LastIndex(_, _, _)
LastIndex(path, c, n) ==
    IF n = 0 THEN 0
    ELSE IF SubSeq(path, n, n) = c THEN n
    ELSE IF SubSeq(path, n, n) = "/" THEN 0
    ELSE LastIndex(path, c, n - 1)

\* filepath.Dir, filepath.Base and filepath.Ext of a path with a directory.
Dir(path) == SubSeq(path, 1, LastIndex(path, "/", Len(path)) - 1)
Base(path) == SubSeq(path, LastIndex(path, "/", Len(path)) + 1, Len(path))
Ext(path) ==
    LET dot == LastIndex(path, ".", Len(path))
    IN  IF dot = 0 THEN "" ELSE SubSeq(path, dot, Len(path))

\* strings.TrimSuffix
TrimSuffix(str, suffix) ==
    IF /\ Len(str) >= Len(suffix)
       /\ SubSeq(str, Len(str) - Len(suffix) + 1, Len(str)) = suffix
      THEN SubSeq(str, 1, Len(str) - Len(suffix))
      ELSE str

\* The loop of handleFileConflict from counter on: the first name with a
\* numeric suffix that os.Stat does not find.
RECURSIVE FirstFreeName(_, _, _, _, _)
FirstFreeName(dir, nameWithoutExt, ext, counter, existing) ==
    LET newPath == Join(dir, nameWithoutExt \o "_" \o ToString(counter) \o ext)
    IN  IF newPath \notin existing THEN newPath
        ELSE FirstFreeName(dir, nameWithoutExt, ext, counter + 1, existing)

\* handleFileConflict always answering with the suffix _1.
handleFileConflict_FirstSuffix(originalPath, existing) ==
    Join(Dir(originalPath),
         TrimSuffix(Base(originalPath), Ext(originalPath)) \o "_1" \o Ext(originalPath))

\* handleFileConflict(originalPath), existing being the paths of the file
\* system.
handleFileConflict(originalPath, existing) ==
    LET dir            == Dir(originalPath)
        ext            == Ext(originalPath)
        nameWithoutExt == TrimSuffix(Base(originalPath), ext)
    IN  FirstFreeName(dir, nameWithoutExt, ext, 1, existing)

\* The files that can be there before the first call: reports of second 0,
\* written by earlier runs.
OldPaths ==
    {Join(outputDir, "MR-conflict-" \o generateTimestamp(0) \o ".md")}
        \cup {Join(outputDir, "MR-conflict-" \o generateTimestamp(0) \o "_"
                                \o ToString(k) \o ".md") : k \in 1..MaxOldSuffix}

NoFiles == <<>>

FsIdle ==
    /\ files = NoFiles
    /\ fsClock = 0
    /\ genCalls = 0
    /\ genPath = ""
    /\ genErr = Nil

FsInit ==
    /\ files \in UNION {[old -> {0}] : old \in SUBSET OldPaths}
    /\ fsClock = 0
    /\ genCalls = 0
    /\ genPath = ""
    /\ genErr = Nil

\* The wall clock reaches the next second.
SecondPasses ==
    /\ fsClock < MaxSeconds
    /\ fsClock' = fsClock + 1
    /\ UNCHANGED <<files, genCalls, genPath, genErr>>

\* GenerateReport(report, outputDir): the name from the clock, the suffix
\* when os.Stat finds the name, then MkdirAll and WriteFile, each of which
\* can fail; a failed WriteFile may leave a file at its path.  WriteFile
\* replaces whatever is at the path.
GenerateReport ==
    /\ genCalls < MaxGenCalls
    /\ genCalls' = genCalls + 1
    /\ LET timestamp == generateTimestamp(fsClock)
           filename  == "MR-conflict-" \o timestamp \o ".md"
           joined    == Join(outputDir, filename)
           fullPath  == IF joined \in DOMAIN files
                          THEN handleFileConflict(joined, DOMAIN files)
                          ELSE joined
           written   == (fullPath :> genCalls + 1) @@ files
       IN  \/ /\ genErr' = "failed to create output directory"
              /\ genPath' = ""
              /\ files' = files
           \/ /\ genErr' = "failed to write report file"
              /\ genPath' = ""
              /\ files' \in {files, written}
           \/ /\ genErr' = Nil
              /\ genPath' = fullPath
              /\ files' = written
    /\ UNCHANGED fsClock

RunIdle ==
    /\ runErr = Nil
    /\ cancelPc = "none"
    /\ fetchFailed = {}

----------------------------------------------------------------------------
(* main: run                                                               *)

\* Most repositories that pass the whitelist in a run.
MaxRunRepos == 2

RunInit ==
    /\ runErr = Nil
    /\ cancelPc = "none"
    /\ fetchFailed = {}

\* buildReport from the entries of r on: one AddRepository per repository,
\* with the repository's error text and its list in the mapping.
RECURSIVE buildReportFrom(_, _, _)
buildReportFrom(r, repos, conflictingMRs) ==
    IF repos = <<>> THEN r
    ELSE LET repo     == Head(repos)
             errorMsg == IF repo.Error # Nil THEN repo.Error ELSE ""
             mrs      == IF repo.ID \in DOMAIN conflictingMRs
                           THEN conflictingMRs[repo.ID] ELSE <<>>
         IN  buildReportFrom(AddRepository(r, repo, mrs, repo.Status, errorMsg),
                             Tail(repos), conflictingMRs)

\* buildReport(repositories, conflictingMRs)
buildReport(repos, conflictingMRs) == buildReportFrom(EmptyReport, repos, conflictingMRs)

\* The signal handler cancels run's context, wherever run is.
RunCancel ==
    /\ pc \notin {"done", "run_failed"}
    /\ CancelContext
    /\ cancelPc' = pc
    /\ UNCHANGED <<reportVars, pipeVars, gcVars, fsVars, runErr, fetchFailed>>

\* config.LoadConfig in run.
RunLoadConfig ==
    /\ pc = "load"
    /\ \E loaded \in BOOLEAN :
        IF loaded
          THEN pc' = "connect" /\ runErr' = runErr
          ELSE pc' = "run_failed" /\ runErr' = "failed to load configuration"
    /\ UNCHANGED <<reportVars, observe, scanVars, anVars, gcVars, clientVars, fsVars,
                   cancelPc, fetchFailed>>

\* client.TestConnection in run; with a cancelled context the call fails.
RunTestConnection ==
    /\ pc = "connect"
    /\ \E connected \in BOOLEAN :
        /\ ctxDone => ~connected
        /\ IF connected
             THEN pc' = "start" /\ runErr' = runErr
             ELSE pc' = "run_failed" /\ runErr' = "failed to connect to GitLab"
    /\ UNCHANGED <<reportVars, observe, scanVars, anVars, gcVars, clientVars, fsVars,
                   cancelPc, fetchFailed>>

\* ScanRepositories up to its loop, in run.
RunScanList ==
    /\ ScanListRepositories
    /\ ctxDone => pc' = "scan_failed"
    /\ Len(filteredRepos') <= MaxRunRepos
    /\ UNCHANGED <<reportVars, gcVars, clientVars, fsVars, runVars>>

\* One iteration of ScanRepositories' loop, in run.
RunScanProcess ==
    /\ ScanProcessRepository
    /\ LET repo == processedRepos'[Len(processedRepos')]
       IN  /\ ctxDone => repo.Status = StatusError
           /\ fetchFailed' = IF repo.Status = StatusError
                               THEN fetchFailed \cup {repo.ID} ELSE fetchFailed
    /\ UNCHANGED <<reportVars, gcVars, clientVars, fsVars, runErr, cancelPc>>

\* run going on with no repositories after a failed scan.
RunStageFailed_GoesOn ==
    /\ pc \in {"scan_failed", "analyze_failed"}
    /\ runErr' = runErr
    /\ pc' = IF pc = "scan_failed" THEN "scanned" ELSE "analyzed"
    /\ UNCHANGED <<reportVars, observe, scanVars, anVars, gcVars, clientVars, fsVars,
                   cancelPc, fetchFailed>>

\* run returns the error of a stage that failed as a whole.
RunStageFailed ==
    /\ pc \in {"scan_failed", "analyze_failed"}
    /\ runErr' = IF pc = "scan_failed" THEN "failed to scan repositories"
                 ELSE "failed to analyze merge requests"
    /\ pc' = "run_failed"
    /\ UNCHANGED <<reportVars, observe, scanVars, anVars, gcVars, clientVars, fsVars,
                   cancelPc, fetchFailed>>

\* run after the scan: the ctx.Err() test, then AnalyzeMRs up to its
\* loop.
RunAfterScan ==
    /\ pc = "scanned"
    /\ IF ctxDone
         THEN /\ pc' = "run_failed"
              /\ runErr' = Canceled
              /\ UNCHANGED <<observe, scanVars, anVars>>
         ELSE AnalyzeStart /\ runErr' = runErr
    /\ UNCHANGED <<reportVars, gcVars, clientVars, fsVars, cancelPc, fetchFailed>>

\* One iteration of AnalyzeMRs' loop, in run.
RunAnalyzeStep ==
    /\ AnalyzeRepositoryStep
    /\ LET i    == Len(analyzedRepos')
           repo == analyzedRepos'[i]
       IN  /\ ctxDone => repo.Status = StatusError
           /\ fetchFailed' = IF repo.Status = StatusError /\ repositories[i].Status # StatusError
                               THEN fetchFailed \cup {repo.ID} ELSE fetchFailed
    /\ UNCHANGED <<reportVars, gcVars, clientVars, fsVars, runErr, cancelPc>>

\* run hands the analysed repositories to GetConflictingMRs.
RunConflictsStart ==
    /\ pc = "analyzed"
    /\ GetConflictingMRsEntry
    /\ UNCHANGED <<reportVars, clientVars, fsVars, runVars>>

\* One iteration of GetConflictingMRs' loop, in run.
RunConflictsStep ==
    /\ \E ans \in GcAnswers :
        /\ GetConflictingMRsRepo(ans)
        /\ ctxDone => ans.err # Nil
        /\ fetchFailed' =
             IF analyzedRepos[gcIndex'].Status = StatusConflicts /\ ans.err # Nil
               THEN fetchFailed \cup {analyzedRepos[gcIndex'].ID} ELSE fetchFailed
    /\ UNCHANGED <<reportVars, clientVars, fsVars, runErr, cancelPc>>

\* run building the report without the ctx.Err() test.
RunBuildReport_NoCheck ==
    /\ pc = "collected"
    /\ pc' = "report"
    /\ runErr' = runErr
    /\ report' = buildReport(analyzedRepos, gcConflictingMRs)
    /\ UNCHANGED <<observe, scanVars, anVars, gcVars, clientVars, fsVars, cancelPc,
                   fetchFailed>>

\* run after GetConflictingMRs: the ctx.Err() test, then buildReport.
RunBuildReport ==
    /\ pc = "collected"
    /\ IF ctxDone
         THEN /\ pc' = "run_failed"
              /\ runErr' = Canceled
              /\ report' = report
         ELSE /\ pc' = "report"
              /\ runErr' = runErr
              /\ report' = buildReport(analyzedRepos, gcConflictingMRs)
    /\ UNCHANGED <<observe, scanVars, anVars, gcVars, clientVars, fsVars, cancelPc,
                   fetchFailed>>

\* run calls GenerateReport and returns.
RunGenerateReport ==
    /\ pc = "report"
    /\ GenerateReport
    /\ IF genErr' = Nil
         THEN pc' = "done" /\ runErr' = Nil
         ELSE pc' = "run_failed" /\ runErr' = "failed to generate report"
    /\ UNCHANGED <<reportVars, observe, scanVars, anVars, gcVars, clientVars, cancelPc,
                   fetchFailed>>

----------------------------------------------------------------------------
(* gitlab.Client: the pagination loop against any upstream                 *)

\* The page number is kept modulo PageModulus: what the loop does next does
\* not depend on it.
PageModulus == 8
\* Most full pages an upstream that runs out has.
MaxFullPages == 3
\* The upstream that answers every page with a full page.
Endless == -1

PagingIdle ==
    /\ pgOp = "none"
    /\ pgPc = "idle"
    /\ pgPage = 1
    /\ pgLeft = 0
    /\ pgLast = "none"

PagingInit ==
    /\ pgOp \in Paginated
    /\ pgPc = "loop"
    /\ pgPage = 1
    /\ pgLeft \in {Endless} \cup 0..MaxFullPages
    /\ pgLast = "none"

\* One iteration of the loop of ListRepositories or ListMergeRequests:
\* makeRequest (which ends: the ticker ticks, the HTTP client has a
\* timeout, a cancelled context fails it), the decoding, the append and the
\* exit test.  There is no other exit.
PagingRequest ==
    /\ pgPc = "loop"
    /\ \E resp \in (IF ctxDone THEN {CanceledResponse} ELSE Responses) :
        LET pageItems == IF pgLeft = 0 THEN <<>> ELSE [i \in 1..perPage |-> i]
        IN  IF makeRequest(resp) # Nil
              THEN /\ pgLast' = IF ctxDone THEN "cancelled" ELSE "request failed"
                   /\ pgPc' = "failed"
                   /\ UNCHANGED <<pgPage, pgLeft>>
            ELSE IF ~resp.json
              THEN /\ pgLast' = "decode failed"
                   /\ pgPc' = "failed"
                   /\ UNCHANGED <<pgPage, pgLeft>>
            ELSE IF LastPage(pageItems)
              THEN /\ pgLast' = "short page"
                   /\ pgPc' = "returned"
                   /\ UNCHANGED <<pgPage, pgLeft>>
            ELSE /\ pgLast' = "full page"
                 /\ pgPc' = "loop"
                 /\ pgPage' = (pgPage + 1) % PageModulus
                 /\ pgLeft' = IF pgLeft = Endless THEN Endless ELSE pgLeft - 1
    /\ UNCHANGED pgOp

\* The caller's context is cancelled while the call runs.
PagingCancel ==
    /\ pgPc = "loop"
    /\ CancelContext

----------------------------------------------------------------------------
(* Specifications                                                          *)

PipeIdle == observe = FALSE /\ ScanIdle /\ AnIdle /\ GcIdle /\ pc = "idle"

\* The paginated listing.
InitList == ListInit /\ FilterIdle /\ ReportInit /\ PipeIdle /\ ClientIdle /\ FsIdle /\ RunIdle /\ PagingIdle
ListNext == ListRepositoriesPage /\ UNCHANGED <<filterVars, reportVars, pipeVars, gcVars, clientVars, fsVars, runVars, pgVars>>
SpecList == InitList /\ [][ListNext]_vars

\* The filter and the sort, on every merge-request list.
InitFilter == FilterInit /\ ListIdle /\ ReportInit /\ PipeIdle /\ ClientIdle /\ FsIdle /\ RunIdle /\ PagingIdle
FilterNext ==
    \/ CallFilterAndSortConflictingMRs /\ UNCHANGED <<listVars, reportVars, pipeVars, gcVars, clientVars, fsVars, runVars, pgVars>>
    \/ CallFilterAndSortRealConflictingMRs /\ UNCHANGED <<listVars, reportVars, pipeVars, gcVars, clientVars, fsVars, runVars, pgVars>>
SpecFilter == InitFilter /\ [][FilterNext]_vars

\* A report built by AddRepository calls.
InitReport == ReportInit /\ ListIdle /\ FilterIdle /\ PipeIdle /\ ClientIdle /\ FsIdle /\ RunIdle /\ PagingIdle
ReportNext == CallAddRepository /\ UNCHANGED <<listVars, filterVars, pipeVars, gcVars, clientVars, fsVars, runVars, pgVars>>
SpecReport == InitReport /\ [][ReportNext]_vars

\* A client and its caller: operations one after the other, while time
\* passes.
InitClient == ClientIdle /\ FsIdle /\ RunIdle /\ PagingIdle /\ ListIdle /\ FilterIdle /\ ReportInit /\ PipeIdle
ClientNext ==
    \/ TimePasses /\ UNCHANGED <<listVars, filterVars, reportVars, pipeVars, gcVars, fsVars, runVars, pgVars>>
    \/ StartOperation /\ UNCHANGED <<listVars, filterVars, reportVars, pipeVars, gcVars, fsVars, runVars, pgVars>>
    \/ ClientRequest /\ UNCHANGED <<listVars, filterVars, reportVars, pipeVars, gcVars, fsVars, runVars, pgVars>>
    \/ ClientRequestCancelled
            /\ UNCHANGED <<listVars, filterVars, reportVars, pipeVars, gcVars, fsVars, runVars, pgVars>>
    \/ CancelContext /\ UNCHANGED <<listVars, filterVars, reportVars, pipeVars, gcVars, fsVars, runVars, pgVars>>
    \/ Close /\ UNCHANGED <<listVars, filterVars, reportVars, pipeVars, gcVars, fsVars, runVars, pgVars>>
SpecClient == InitClient /\ [][ClientNext]_vars

\* The scanner on its own, its inputs recorded.
InitScan ==
    /\ ScanInit /\ AnIdle /\ GcIdle /\ observe = TRUE /\ pc = "start"
    /\ ListIdle /\ FilterIdle /\ ReportInit /\ ClientIdle /\ FsIdle /\ RunIdle /\ PagingIdle
ScanNext ==
    \/ ScanListRepositories /\ UNCHANGED <<listVars, filterVars, reportVars, gcVars, clientVars, fsVars, runVars, pgVars>>
    \/ ScanProcessRepository /\ UNCHANGED <<listVars, filterVars, reportVars, gcVars, clientVars, fsVars, runVars, pgVars>>
    \/ GetRepositoryCount /\ UNCHANGED <<listVars, filterVars, reportVars, gcVars, clientVars, fsVars, runVars, pgVars>>
SpecScan == InitScan /\ [][ScanNext]_vars

\* AnalyzeMRs on its own, on every input list, its inputs recorded.
InitAnalyze ==
    /\ ScanIdle /\ GcIdle /\ observe = TRUE
    /\ client \in {NilClient, TheClient}
    /\ repositories \in UNION {InputRepos(n) : n \in 0..MaxAnRepos}
    /\ analyzedRepos = <<>>
    /\ anLast = NoAnswer
    /\ anErr = Nil
    /\ anRequests = <<>>
    /\ pc = "call"
    /\ ListIdle /\ FilterIdle /\ ReportInit /\ ClientIdle /\ FsIdle /\ RunIdle /\ PagingIdle
AnalyzeNext ==
    \/ CallAnalyzeMRs /\ UNCHANGED <<listVars, filterVars, reportVars, gcVars, clientVars, fsVars, runVars, pgVars>>
    \/ AnalyzeRepositoryStep /\ UNCHANGED <<listVars, filterVars, reportVars, gcVars, clientVars, fsVars, runVars, pgVars>>
SpecAnalyze == InitAnalyze /\ [][AnalyzeNext]_vars

\* GetConflictingMRs on its own, on every list of repositories, its inputs
\* recorded.
InitConflicts ==
    /\ ScanIdle /\ GcIdle /\ observe = TRUE
    /\ client = TheClient
    /\ repositories = <<>>
    /\ analyzedRepos \in UNION {InputRepos(n) : n \in 0..MaxGcRepos}
    /\ anLast = NoAnswer
    /\ anErr = Nil
    /\ anRequests = <<>>
    /\ pc = "gc_call"
    /\ ListIdle /\ FilterIdle /\ ReportInit /\ ClientIdle /\ FsIdle /\ RunIdle /\ PagingIdle
ConflictsNext ==
    \/ CallGetConflictingMRs /\ UNCHANGED <<listVars, filterVars, reportVars, clientVars, fsVars, runVars, pgVars>>
    \/ GetConflictingMRsStep /\ UNCHANGED <<listVars, filterVars, reportVars, clientVars, fsVars, runVars, pgVars>>
SpecConflicts == InitConflicts /\ [][ConflictsNext]_vars

\* run: the scan, then the analysis of what it returned.
Init ==
    /\ ScanInit /\ AnIdle /\ GcIdle /\ observe = FALSE /\ pc = "start"
    /\ ListIdle /\ FilterIdle /\ ReportInit /\ ClientIdle /\ FsIdle /\ RunIdle /\ PagingIdle
Next ==
    \/ ScanListRepositories /\ UNCHANGED <<listVars, filterVars, reportVars, gcVars, clientVars, fsVars, runVars, pgVars>>
    \/ ScanProcessRepository /\ UNCHANGED <<listVars, filterVars, reportVars, gcVars, clientVars, fsVars, runVars, pgVars>>
    \/ AnalyzeStart /\ UNCHANGED <<listVars, filterVars, reportVars, gcVars, clientVars, fsVars, runVars, pgVars>>
    \/ AnalyzeRepositoryStep /\ UNCHANGED <<listVars, filterVars, reportVars, gcVars, clientVars, fsVars, runVars, pgVars>>
Spec == Init /\ [][Next]_vars

\* The reporter: GenerateReport calls on a directory that may hold earlier
\* reports, while the clock advances.
InitReporter ==
    /\ FsInit /\ RunIdle /\ PagingIdle /\ ListIdle /\ FilterIdle /\ ReportInit /\ PipeIdle /\ ClientIdle
ReporterNext ==
    \/ GenerateReport
            /\ UNCHANGED <<listVars, filterVars, reportVars, pipeVars, gcVars, clientVars, runVars, pgVars>>
    \/ SecondPasses
            /\ UNCHANGED <<listVars, filterVars, reportVars, pipeVars, gcVars, clientVars, runVars, pgVars>>
SpecReporter == InitReporter /\ [][ReporterNext]_vars

\* The whole run, from the loading of the configuration to the report,
\* with the cancellation of its context at any moment.
InitRun ==
    /\ ScanInit /\ AnIdle /\ GcIdle /\ observe = FALSE /\ pc = "load"
    /\ ListIdle /\ FilterIdle /\ ReportInit /\ ClientIdle /\ FsIdle /\ RunInit /\ PagingIdle
RunNext ==
    \/ RunCancel /\ UNCHANGED <<listVars, filterVars, pgVars>>
    \/ RunLoadConfig /\ UNCHANGED <<listVars, filterVars, pgVars>>
    \/ RunTestConnection /\ UNCHANGED <<listVars, filterVars, pgVars>>
    \/ RunScanList /\ UNCHANGED <<listVars, filterVars, pgVars>>
    \/ RunScanProcess /\ UNCHANGED <<listVars, filterVars, pgVars>>
    \/ RunStageFailed /\ UNCHANGED <<listVars, filterVars, pgVars>>
    \/ RunAfterScan /\ UNCHANGED <<listVars, filterVars, pgVars>>
    \/ RunAnalyzeStep /\ UNCHANGED <<listVars, filterVars, pgVars>>
    \/ RunConflictsStart /\ UNCHANGED <<listVars, filterVars, pgVars>>
    \/ RunConflictsStep /\ UNCHANGED <<listVars, filterVars, pgVars>>
    \/ RunBuildReport /\ UNCHANGED <<listVars, filterVars, pgVars>>
    \/ RunGenerateReport /\ UNCHANGED <<listVars, filterVars, pgVars>>
SpecRun == InitRun /\ [][RunNext]_vars

\* One paginated call against an upstream that runs out of items or never
\* does.  The loop's iteration is taken as long as the call runs; nothing
\* obliges the context to be cancelled.
InitPaging ==
    /\ PagingInit /\ ListIdle /\ FilterIdle /\ ReportInit /\ PipeIdle /\ ClientIdle
    /\ FsIdle /\ RunIdle
PagingStep ==
    PagingRequest /\ UNCHANGED <<listVars, filterVars, reportVars, pipeVars, gcVars,
                                 clientVars, fsVars, runVars>>
PagingNext ==
    \/ PagingStep
    \/ PagingCancel /\ UNCHANGED <<listVars, filterVars, reportVars, pipeVars, gcVars,
                                   fsVars, runVars, pgVars>>
SpecPaging == InitPaging /\ [][PagingNext]_vars /\ WF_vars(PagingStep)

----------------------------------------------------------------------------
(* Properties                                                              *)

\* What the properties are stated with, written from the documents and not
\* from the operators above.
Qualifies(mr) ==
    mr.SourceBranch = "release" /\ mr.TargetBranch = "master" /\ mr.HasConflicts = TRUE

Count(seq, x) == Cardinality({i \in 1..Len(seq) : seq[i] = x})

IDsOf(repos) == [i \in 1..Len(repos) |-> repos[i].ID]

StatusesOf(repos) == [i \in 1..Len(repos) |-> repos[i].Status]

\* C1: when ListRepositories returns a list, it is the upstream's list, in
\* the upstream's order, whatever page size the upstream applies.
C1_ListIsUpstream == lrPc = "returned" => allRepos = upstreamRepos

RECURSIVE SumConflictLens(_)
SumConflictLens(entries) ==
    IF entries = <<>> THEN 0
    ELSE (IF Head(entries).Status = StatusConflicts
            THEN Len(Head(entries).ConflictingMRs) ELSE 0)
         + SumConflictLens(Tail(entries))

\* C2: after any sequence of AddRepository calls on an empty report,
\* TotalRepositories is the number of entries, RepositoriesWithConflicts the
\* number of entries with status Conflicts, and TotalConflictingMRs the sum
\* of the conflicting-MR-list lengths of the Conflicts entries only.
C2_CountersMatchEntries ==
    LET entries == report.Repositories
    IN  /\ report.TotalRepositories = Len(entries)
        /\ report.RepositoriesWithConflicts =
             Cardinality({i \in 1..Len(entries) : entries[i].Status = StatusConflicts})
        /\ report.TotalConflictingMRs = SumConflictLens(entries)

\* A report with a Conflicts entry of two MRs and an entry of another status
\* whose list is not empty.
C2_Witness ==
    /\ Len(report.Repositories) = 3
    /\ \E i, j \in 1..3 :
        /\ report.Repositories[i].Status = StatusConflicts
        /\ Len(report.Repositories[i].ConflictingMRs) = 2
        /\ report.Repositories[j].Status = StatusNoMRs
        /\ Len(report.Repositories[j].ConflictingMRs) = 1
    /\ report.TotalConflictingMRs = 2

ExpectedScanStatus(ans) ==
    IF ans.mrs = <<>> THEN StatusNoMRs
    ELSE IF \E j \in 1..Len(ans.mrs) : ans.mrs[j].HasConflicts = TRUE THEN StatusConflicts
    ELSE StatusNoMRs

ScenarioAnswers ==
    /\ Len(scAnswers) = 3
    /\ scAnswers[1].err = Nil /\ scAnswers[1].mrs = <<>>
    /\ scAnswers[2].err = Nil /\ Len(scAnswers[2].mrs) = 2
    /\ \A j \in 1..2 : scAnswers[2].mrs[j].HasConflicts = TRUE
    /\ scAnswers[3].err # Nil

\* C3: a repository whose merge-request fetch succeeds gets NoMRs for an
\* empty list, Conflicts when some returned merge request has conflicts and
\* NoMRs otherwise, each with a nil error; repositories answering [no MRs,
\* two conflicting MRs, failure] get [NoMRs, Conflicts, Error].
C3_ScanClassification ==
    /\ Len(scAnswers) = Len(processedRepos)
    /\ \A i \in 1..Len(processedRepos) :
        scAnswers[i].err = Nil =>
            /\ processedRepos[i].Status = ExpectedScanStatus(scAnswers[i])
            /\ processedRepos[i].Error = Nil
    /\ (pc = "scanned" /\ ScenarioAnswers) =>
            StatusesOf(processedRepos) = <<StatusNoMRs, StatusConflicts, StatusError>>

\* The scan of the scenario's three repositories has returned.
C3_Witness ==
    /\ pc = "scanned"
    /\ ScenarioAnswers
    /\ StatusesOf(processedRepos) = <<StatusNoMRs, StatusConflicts, StatusError>>

Passes(repo) ==
    \/ includeGroups = <<>>
    \/ \E k \in 1..Len(includeGroups) : includeGroups[k] = repo.Namespace

\* C4: a failing merge-request fetch gives that repository the Error
\* status and the error, and nothing else: the scan fails only when the
\* listing failed, it returns one entry per repository that passed the
\* whitelist, in the listing's order, and the repositories whose fetch
\* succeeded, those after a failure included, are not in error.
C4_FetchFailureIsLocal ==
    /\ \A i \in 1..Len(processedRepos) :
        IF scAnswers[i].err # Nil
          THEN /\ processedRepos[i].Status = StatusError
               /\ processedRepos[i].Error = scAnswers[i].err
          ELSE /\ processedRepos[i].Status = ExpectedScanStatus(scAnswers[i])
               /\ processedRepos[i].Error = Nil
    /\ pc = "scan_failed" => scAnswers = <<>>
    /\ pc = "scanned" =>
        /\ scErr = Nil
        /\ IDsOf(processedRepos) = IDsOf(SelectSeq(listedRepos, Passes))

\* A returned scan whose first fetch failed and whose last one found
\* conflicts.
C4_Witness ==
    /\ pc = "scanned"
    /\ Len(processedRepos) = 3
    /\ scAnswers[1].err # Nil
    /\ processedRepos[1].Status = StatusError
    /\ processedRepos[2].Status = StatusNoMRs
    /\ processedRepos[3].Status = StatusConflicts

\* C5: with an empty whitelist every listed repository is scanned; with a
\* whitelist exactly those whose namespace is in it, in the listing's order,
\* and merge requests are requested for those only; GetRepositoryCount
\* counts the same repositories.
C5_NamespaceFilter ==
    LET expected == IDsOf(SelectSeq(listedRepos, Passes))
    IN  /\ pc = "scanned" =>
            /\ IDsOf(processedRepos) = expected
            /\ mrRequests = expected
        /\ pc = "process" =>
            /\ IDsOf(filteredRepos) = expected
            /\ mrRequests = SubSeq(expected, 1, Len(mrRequests))
        /\ pc = "counted" => scCount = Len(expected)
        /\ (pc \in {"scanned", "counted"} /\ includeGroups = <<>>) =>
            expected = IDsOf(listedRepos)

\* Whitelist [10], namespaces [10, 20, 10]: repositories 1 and 3.
C5_Witness ==
    /\ pc = "scanned"
    /\ includeGroups = <<10>>
    /\ [i \in 1..Len(listedRepos) |-> listedRepos[i].Namespace] = <<10, 20, 10>>
    /\ IDsOf(processedRepos) = <<1, 3>>
    /\ mrRequests = <<1, 3>>

ErrorIffStatus(repo) == (repo.Status = StatusError) <=> (repo.Error # Nil)

\* C6: every repository ScanRepositories returns, and every repository
\* AnalyzeMRs returns for them, has the Error status exactly when its error
\* is not nil.
C6_ErrorIffStatus ==
    /\ \A i \in 1..Len(processedRepos) : ErrorIffStatus(processedRepos[i])
    /\ \A i \in 1..Len(analyzedRepos) : ErrorIffStatus(analyzedRepos[i])

\* An analysis that returned an error the scan recorded and an error of its
\* own.
C6_Witness ==
    /\ pc = "analyzed"
    /\ Len(analyzedRepos) = 3
    /\ repositories[1].Status = StatusError
    /\ analyzedRepos[1].Error = repositories[1].Error
    /\ repositories[2].Status = StatusConflicts
    /\ analyzedRepos[2].Status = StatusError
    /\ analyzedRepos[2].Error # Nil
    /\ analyzedRepos[3].Status = StatusAccessible

\* C7: filterAndSortConflictingMRs returns the release->master merge
\* requests with conflicts, each as often as the input holds it, and
\* nothing else.
C7_FilterIsExact ==
    fPc = "basic" =>
        /\ \A i \in 1..Len(fOut) : Qualifies(fOut[i])
        /\ \A mr \in MergeRequests :
            Count(fOut, mr) = IF Qualifies(mr) THEN Count(fMrs, mr) ELSE 0
        /\ fMrs = <<>> => fOut = <<>>

\* The same qualifying merge request twice in the input, with one that does
\* not qualify.
C7_Witness ==
    /\ fPc = "basic"
    /\ Len(fMrs) = 3
    /\ Len(fOut) = 2
    /\ fOut[1] = fOut[2]
    /\ \E i \in 1..3 : fMrs[i].SourceBranch = "release" /\ ~fMrs[i].HasConflicts

\* C8: the output of either filter+sort has non-increasing creation
\* timestamps.
C8_NewestFirst ==
    fPc \in {"basic", "real"} =>
        \A i \in 1..(Len(fOut) - 1) : ~(fOut[i].CreatedAt < fOut[i + 1].CreatedAt)

\* Three survivors of the real-conflict filter that came oldest first.
C8_Witness ==
    /\ fPc = "real"
    /\ Len(fOut) = 3
    /\ fMrs[1].CreatedAt < fMrs[3].CreatedAt
    /\ fOut[1].CreatedAt > fOut[3].CreatedAt

Survives(i) ==
    /\ Qualifies(fMrs[i])
    /\ fPc = "real" => (fChanges[i].err \/ fChanges[i].count > 0)

RECURSIVE Survivors(_)
Survivors(i) ==
    IF i > Len(fMrs) THEN <<>>
    ELSE (IF Survives(i) THEN <<fMrs[i]>> ELSE <<>>) \o Survivors(i + 1)

CreatedAtIs(seq, t) == SelectSeq(seq, LAMBDA mr : mr.CreatedAt = t)

C11_RealConflictRule ==
    fPc = "real" =>
        /\ Len(fChanges) = Len(fMrs)
        /\ \A i \in 1..Len(fMrs) : (fChanges[i] # NotAsked) <=> Qualifies(fMrs[i])
        /\ \A mr \in MergeRequests :
            Count(fOut, mr) =
                Cardinality({i \in 1..Len(fMrs) :
                    /\ fMrs[i] = mr
                    /\ Qualifies(mr)
                    /\ fChanges[i].err \/ fChanges[i].count > 0})

\* One candidate kept on a failed lookup, one dropped on a count of 0, and
\* a merge request without conflicts that was not looked up.
C11_Witness ==
    /\ fPc = "real"
    /\ Len(fMrs) = 3
    /\ \E i, j, k \in 1..3 :
        /\ Qualifies(fMrs[i]) /\ fChanges[i].err
        /\ Qualifies(fMrs[j]) /\ ~fChanges[j].err /\ fChanges[j].count = 0
        /\ ~fMrs[k].HasConflicts /\ fChanges[k] = NotAsked
        /\ fOut = <<fMrs[i]>>

AnSurvivor(ans) ==
    \E j \in 1..Len(ans.mrs) :
        /\ Qualifies(ans.mrs[j])
        /\ ans.changes[j].err \/ ans.changes[j].count > 0

\* C10: a repository that is not in error and whose fetch succeeds comes
\* out of AnalyzeMRs with Conflicts when a merge request survives the
\* real-conflict filter, else Accessible when the fetch returned any merge
\* request, else NoMRs.
C10_ThreeWayStatus ==
    (Len(analyzedRepos) > 0 /\ anLast.asked /\ anLast.err = Nil) =>
        LET i == Len(analyzedRepos)
        IN  /\ repositories[i].Status # StatusError
            /\ analyzedRepos[i].Status =
                 IF AnSurvivor(anLast) THEN StatusConflicts
                 ELSE IF Len(anLast.mrs) > 0 THEN StatusAccessible
                 ELSE StatusNoMRs

\* A repository the scanner would call Conflicts, whose only qualifying
\* merge request has no changes: Accessible.
C10_Witness ==
    /\ Len(analyzedRepos) = 2
    /\ repositories[2].Status = StatusConflicts
    /\ anLast.asked /\ anLast.err = Nil
    /\ Len(anLast.mrs) = 2
    /\ \E j \in 1..2 : Qualifies(anLast.mrs[j]) /\ anLast.changes[j].count = 0
                        /\ ~anLast.changes[j].err
    /\ analyzedRepos[2].Status = StatusAccessible

NotInError(repo) == repo.Status # StatusError

\* C12: AnalyzeMRs returns every input repository whose status is Error as
\* it came, at its position, and calls ListMergeRequests for the other
\* repositories only.
C12_ErrorPassesThrough ==
    LET done == Len(analyzedRepos)
    IN  /\ \A i \in 1..done :
            repositories[i].Status = StatusError => analyzedRepos[i] = repositories[i]
        /\ anRequests = IDsOf(SelectSeq(SubSeq(repositories, 1, done), NotInError))
        /\ (done > 0 /\ repositories[done].Status = StatusError) => ~anLast.asked

\* An analysis that returned its first repository as it came and queried
\* the second only.
C12_Witness ==
    /\ pc = "analyzed"
    /\ Len(repositories) = 2
    /\ repositories[1].Status = StatusError
    /\ repositories[1].Error # Nil
    /\ analyzedRepos[1] = repositories[1]
    /\ repositories[2].Status = StatusConflicts
    /\ anRequests = <<2>>

\* C13: a repository whose ListMergeRequests call fails inside AnalyzeMRs
\* comes out with the Error status and an error, its other fields kept; the
\* loop goes on, AnalyzeMRs returns no error and one entry per input
\* repository, in input order.
C13_AnalysisFailureIsLocal ==
    /\ client = TheClient =>
        /\ pc \in {"call", "analyze", "analyzed"}
        /\ anErr = Nil
    /\ (Len(analyzedRepos) > 0 /\ anLast.asked /\ anLast.err # Nil) =>
        LET i == Len(analyzedRepos)
        IN  /\ analyzedRepos[i].Status = StatusError
            /\ analyzedRepos[i].Error # Nil
            /\ analyzedRepos[i].ID = repositories[i].ID
            /\ analyzedRepos[i].Namespace = repositories[i].Namespace
    /\ pc = "analyze" => Len(analyzedRepos) < Len(repositories)
    /\ pc = "analyzed" => IDsOf(analyzedRepos) = IDsOf(repositories)

\* The first repository's fetch failed and the second was still analyzed.
C13_Witness ==
    /\ pc = "analyzed"
    /\ anErr = Nil
    /\ Len(analyzedRepos) = 2
    /\ repositories[1].Status = StatusNoMRs
    /\ analyzedRepos[1].Status = StatusError
    /\ analyzedRepos[1].Error # Nil
    /\ analyzedRepos[2].Status = StatusConflicts
    /\ anRequests = <<1, 2>>

\* C14: with a nil client AnalyzeMRs returns an error and no result, and
\* has analyzed and queried no repository, whatever the input list.
C14_NilClientFails ==
    client = NilClient =>
        /\ pc \in {"call", "analyze_failed"}
        /\ analyzedRepos = <<>>
        /\ anRequests = <<>>
        /\ pc = "analyze_failed" => anErr # Nil

\* The call with a nil client and two repositories to analyze has failed.
C14_Witness ==
    /\ client = NilClient
    /\ pc = "analyze_failed"
    /\ anErr = "gitlab client cannot be nil"
    /\ Len(repositories) = 2
    /\ repositories[1].Status = StatusAccessible

\* The repositories among the first n handed to GetConflictingMRs whose
\* status is Conflicts.
GcConflictsUpTo(n) == {i \in 1..n : analyzedRepos[i].Status = StatusConflicts}

C16_OutcomeMapping ==
    Len(reqLog) > 0 =>
        LET r == lastResp
        IN  /\ ~r.net => lastErr = "request failed: " \o r.cause
            /\ (r.net /\ r.code = 401) =>
                    lastErr = "authentication failed: invalid token"
            /\ (r.net /\ r.code = 429) => lastErr = "rate limit exceeded"
            /\ (r.net /\ r.code >= 400 /\ r.code \notin {401, 429}) =>
                    lastErr = "API error " \o ToString(r.code) \o ": " \o r.body
            /\ (lastErr = Nil) <=> (r.net /\ r.code < 400)

\* A 401 with a body: the authentication error, not the API error.
C16_Witness ==
    /\ Len(reqLog) > 0
    /\ lastResp.code = 401
    /\ lastResp.body = "denied"
    /\ lastErr = "authentication failed: invalid token"
    /\ opPc = "failed"

\* C17: TestConnection succeeds exactly when the identity endpoint answers
\* 200; a 401 fails with the authentication error, and any other status
\* outside 2xx (429, the rate-limit error, apart) with the API error
\* carrying the status and the body.
C17_TestConnectionIff200 ==
    (opName = "TestConnection" /\ opPc \in {"ok", "failed"}) =>
        LET r == lastResp
        IN  /\ (opPc = "ok") <=> (r.net /\ r.code = 200)
            /\ (r.net /\ r.code = 401) =>
                    opErr = "connection test failed: authentication failed: invalid token"
            /\ (r.net /\ r.code \notin 200..299 /\ r.code \notin {401, 429}) =>
                    opErr = "connection test failed: API error " \o ToString(r.code)
                                \o ": " \o r.body

\* The last request of the operation in progress failed: in makeRequest, or
\* in the decoding of the body.
RequestFailed ==
    \/ ~lastResp.net
    \/ lastResp.code >= 400
    \/ opName # "TestConnection" /\ ~lastResp.json

C18_FirstFailureEnds ==
    /\ opPages = [i \in 1..Len(opPages) |-> i]
    /\ opName \notin Paginated => Len(opPages) <= 1
    /\ (Len(opPages) > 0 /\ RequestFailed) => (opPc = "failed" /\ opErr # Nil)
    /\ (opPc = "failed" /\ ~ctxDone) =>
            (Len(opPages) > 0 /\ RequestFailed /\ opPage = Len(opPages))

C19_OneTickPerRequest ==
    /\ \A i \in 1..Len(reqLog) :
        /\ reqLog[i].tick > 0
        /\ reqLog[i].tick % TickerPeriod = 0
        /\ reqLog[i].tick <= reqLog[i].at
        /\ reqLog[i].tick # tickC
    /\ \A i, j \in 1..Len(reqLog) : i < j => reqLog[i].tick < reqLog[j].tick

\* Three pages of one paginated call, each with its own tick.
C19_Witness ==
    /\ opName \in Paginated
    /\ opPages = <<1, 2, 3>>
    /\ Len(reqLog) = 3
    /\ reqLog[1].tick < reqLog[2].tick
    /\ reqLog[2].tick < reqLog[3].tick

\* C20: two consecutive requests of a client are at least one ticker
\* period apart.
C20_MinimumInterval ==
    \A i \in 1..(Len(reqLog) - 1) : reqLog[i + 1].at - reqLog[i].at >= TickerPeriod

\* The error wraps the context's error.
IsCancellation(err) ==
    /\ Len(err) >= Len("context canceled")
    /\ SubSeq(err, Len(err) - Len("context canceled") + 1, Len(err)) = "context canceled"

\* C21: a call waiting for a tick when the context is cancelled can return
\* at once; once the context is cancelled no request is sent, and a call
\* that was waiting returns a cancellation error: a paginated call asks for
\* no further page and returns no list.
C21_Cancellation ==
    /\ []((ctxDone /\ opPc = "wait") => ENABLED ClientRequestCancelled)
    /\ [][ctxDone => reqLog' = reqLog]_vars
    /\ [][(ctxDone /\ opPc = "wait" /\ opPc' # "wait") =>
            (opPc' = "failed" /\ IsCancellation(opErr'))]_vars

\* A listing cancelled while it waited for the tick of its second page.
C21_Witness ==
    /\ ctxDone
    /\ opName = "ListRepositories"
    /\ opPages = <<1>>
    /\ opPc = "failed"
    /\ opErr = "failed to list repositories (page 2): context canceled"
    /\ tickC = 0


\* C29: once Close has stopped the ticker no tick is added to the channel;
\* with the channel empty no request is sent by the closed client, and a
\* call waiting on it returns only when its context is cancelled, with the
\* cancellation error; a second Close changes nothing.
C29_ClosedClientBlocks ==
    /\ [][closed => (tickC' = tickC \/ tickC' = 0)]_vars
    /\ [][(closed /\ tickC = 0) => reqLog' = reqLog]_vars
    /\ [][(closed /\ tickC = 0 /\ opPc = "wait" /\ opPc' # "wait") =>
            (ctxDone /\ opPc' = "failed" /\ IsCancellation(opErr'))]_vars
    /\ []((closed /\ tickC = 0 /\ opPc = "wait" /\ ~ctxDone) =>
            ~ENABLED (ClientRequest \/ ClientRequestCancelled))
    /\ [][(closed /\ Close) => UNCHANGED clientVars]_vars

\* A call on a closed client still waiting, with no request sent, after more
\* than two ticker periods.
C29_Witness ==
    /\ closed
    /\ opPc = "wait"
    /\ ~ctxDone
    /\ tickC = 0
    /\ reqLog = <<>>
    /\ now >= 2 * TickerPeriod


\* C25: ListRepositories asks for pages 1, 2, 3, ...; an answer that decodes
\* ends the loop exactly when it has fewer than 100 items, a page of exactly
\* 100 is followed by one more request, and against an upstream serving the
\* 100 per page it is asked for, a list of N items that is returned cost
\* N \div 100 + 1 requests.
C25_ShortPageRule ==
    /\ [](lrRequests = [i \in 1..Len(lrRequests) |-> i])
    /\ [][(lrPc = "loop" /\ lrErr' = Nil) =>
            /\ (Len(allRepos') - Len(allRepos) < 100) => lrPc' = "returned"
            /\ (Len(allRepos') - Len(allRepos) = 100) =>
                    (lrPc' = "loop" /\ page' = page + 1)
            /\ Len(allRepos') - Len(allRepos) <= 100]_vars
    /\ []((lrPc = "loop" /\ Len(lrRequests) > 0) => page = lrRequests[Len(lrRequests)] + 1)
    /\ []((lrPc = "returned" /\ serverPerPage = 100) =>
            Len(lrRequests) = (Len(upstreamRepos) \div 100) + 1)

\* Two full pages, then the empty third page that ends the listing.
C25_Witness ==
    /\ lrPc = "returned"
    /\ serverPerPage = 100
    /\ Len(upstreamRepos) = 200
    /\ lrRequests = <<1, 2, 3>>


\* The status and the error of an analysed repository, from what the
\* upstream answered alone.
OutcomeOfAnswers(ans) ==
    IF ans.err # Nil THEN <<StatusError, "failed to fetch merge requests">>
    ELSE IF AnSurvivor(ans) THEN <<StatusConflicts, Nil>>
    ELSE IF Len(ans.mrs) > 0 THEN <<StatusAccessible, Nil>>
    ELSE <<StatusNoMRs, Nil>>

\* C30: for a repository that AnalyzeMRs receives with a status other than
\* Error, the status and the error it returns are a function of the
\* upstream's answers: the status it came with (Accessible, NoMRs or
\* Conflicts) has no part in them.
C30_ScanStatusIgnored ==
    (Len(analyzedRepos) > 0 /\ repositories[Len(analyzedRepos)].Status # StatusError) =>
        LET out == analyzedRepos[Len(analyzedRepos)]
        IN  /\ anLast.asked
            /\ <<out.Status, out.Error>> = OutcomeOfAnswers(anLast)

\* A repository the scanner called NoMRs, whose merge requests from release
\* to master are all without conflicts, comes out Accessible.
C30_Witness ==
    /\ Len(analyzedRepos) = 1
    /\ repositories[1].Status = StatusNoMRs
    /\ anLast.asked /\ anLast.err = Nil
    /\ Len(anLast.mrs) = 2
    /\ \A j \in 1..2 : /\ anLast.mrs[j].SourceBranch = "release"
                       /\ anLast.mrs[j].TargetBranch = "master"
                       /\ ~anLast.mrs[j].HasConflicts
    /\ analyzedRepos[1].Status = StatusAccessible
    /\ analyzedRepos[1].Error = Nil


\* The report name of second sec with suffix k (none for k = 0).
ReportName(sec, k) ==
    "reports/MR-conflict-2024-01-01T00-00-0" \o ToString(sec)
        \o (IF k = 0 THEN "" ELSE "_" \o ToString(k)) \o ".md"

\* C23: a GenerateReport call leaves every file that was there as it was;
\* when it succeeds it has written one new file, under the timestamped name
\* if that name was free and else under the first free name with a suffix
\* _1, _2, ..., and the path it returns did not exist before the call.
C23_NeverOverwritten ==
    [][genCalls' = genCalls + 1 =>
        /\ \A path \in DOMAIN files : path \in DOMAIN files' /\ files'[path] = files[path]
        /\ genErr' = Nil =>
            LET free == {k \in 0..Cardinality(DOMAIN files) :
                            ReportName(fsClock, k) \notin DOMAIN files}
                k    == CHOOSE k \in free : \A j \in free : k <= j
            IN  /\ genPath' = ReportName(fsClock, k)
                /\ genPath' \notin DOMAIN files
                /\ DOMAIN files' = DOMAIN files \cup {genPath'}
                /\ files'[genPath'] = genCalls']_vars

\* Two calls within one second on an empty directory: two files, the
\* second with the suffix _1.
C23_Witness ==
    /\ genCalls = 2
    /\ fsClock = 0
    /\ genErr = Nil
    /\ genPath = "reports/MR-conflict-2024-01-01T00-00-00_1.md"
    /\ DOMAIN files = {"reports/MR-conflict-2024-01-01T00-00-00.md",
                       "reports/MR-conflict-2024-01-01T00-00-00_1.md"}
    /\ files["reports/MR-conflict-2024-01-01T00-00-00.md"] = 1
    /\ files["reports/MR-conflict-2024-01-01T00-00-00_1.md"] = 2


C26_ConflictsHaveMRs ==
    /\ \A i \in 1..Len(report.Repositories) :
        (report.Repositories[i].Status = StatusConflicts)
            <=> (Len(report.Repositories[i].ConflictingMRs) > 0)
    /\ report.TotalConflictingMRs >= report.RepositoriesWithConflicts


\* The run has returned, its context never cancelled, with the configuration
\* loaded, the connection tested, the repositories listed and the report
\* file written.
RunWentThrough ==
    /\ pc \in {"done", "run_failed"}
    /\ ~ctxDone
    /\ runErr \notin {"failed to load configuration", "failed to connect to GitLab",
                      "failed to scan repositories", "failed to generate report"}

\* C24: a run that is not cancelled and whose configuration, connection
\* test and listing succeed returns success and has written a report with
\* one entry per repository that passed the whitelist, in their order; the
\* entries of the repositories one of whose merge-request fetches failed
\* have the status Error and an error message, the others no error message.
C24_PartialResults ==
    RunWentThrough =>
        /\ pc = "done"
        /\ runErr = Nil
        /\ genPath \in DOMAIN files
        /\ Len(report.Repositories) = Len(filteredRepos)
        /\ \A i \in 1..Len(report.Repositories) :
            LET entry == report.Repositories[i]
            IN  /\ entry.Repository.ID = filteredRepos[i].ID
                /\ IF entry.Repository.ID \in fetchFailed
                     THEN entry.Status = StatusError /\ entry.ErrorMessage # ""
                     ELSE entry.ErrorMessage = ""


\* C28: once run's context is cancelled before the report stage (while the
\* configuration is loaded, during the connection test, the scan, the
\* analysis or GetConflictingMRs), no report is built, GenerateReport is not
\* called and no file is written, and when run returns it returns an error;
\* meanwhile the scan and the analysis give the repositories they reach the
\* status Error and go on to their end.
C28_CancelledRunWritesNothing ==
    /\ []((ctxDone /\ cancelPc # "report") =>
            /\ pc # "report" /\ pc # "done"
            /\ report = EmptyReport
            /\ genCalls = 0 /\ files = <<>>
            /\ pc = "run_failed" => runErr # Nil)
    /\ [][(ctxDone /\ pc = "process" /\ pc' # pc) =>
            (pc' = "scanned" /\ scErr' = Nil)]_vars
    /\ [][(ctxDone /\ pc = "process" /\ processedRepos' # processedRepos) =>
            processedRepos'[Len(processedRepos')].Status = StatusError]_vars
    /\ [][(ctxDone /\ pc = "analyze" /\ pc' # pc) =>
            (pc' = "analyzed" /\ anErr' = Nil)]_vars
    /\ [][(ctxDone /\ pc = "analyze" /\ analyzedRepos' # analyzedRepos) =>
            analyzedRepos'[Len(analyzedRepos')].Status = StatusError]_vars

\* A run cancelled in the analysis, after the first of two repositories:
\* the second got the status Error, the analysis and GetConflictingMRs went
\* to their end, and run returned the cancellation with nothing written.
C28_Witness ==
    /\ ctxDone
    /\ cancelPc = "analyze"
    /\ pc = "run_failed"
    /\ runErr = "context canceled"
    /\ Len(analyzedRepos) = 2
    /\ analyzedRepos[1].Status = StatusConflicts
    /\ analyzedRepos[2].Status = StatusError
    /\ processedRepos[2].Status # StatusError
    /\ gcRequests = <<1>>
    /\ genCalls = 0
    /\ files = <<>>


\* C27: a call of ListRepositories or ListMergeRequests returns, with a
\* list or an error, whatever the upstream answers and whatever becomes of
\* the context; while the context is not cancelled it returns only on a
\* page shorter than 100 items or on a failed request.
C27_PaginationTerminates ==
    /\ <>(pgPc \in {"returned", "failed"})
    /\ [][(pgPc = "loop" /\ pgPc' # "loop" /\ ~ctxDone) =>
            \/ pgPc' = "returned" /\ pgLast' = "short page"
            \/ pgPc' = "failed" /\ pgLast' \in {"request failed", "decode failed"}]_vars

====
